---- MODULE Spec2Model ----
(***************************************************************************)
(* State-machine model of the 3D checkout: the hosted-field integration    *)
(* (braintree-integration.js), the application coordinator                 *)
(* (checkout-3d.js) and the card scene (three-scene.js, second class       *)
(* definition, lines 704-1581).                                            *)
(*                                                                         *)
(* Time is counted in milliseconds.  One Tick is one display frame: the    *)
(* clock advances by FrameMs and the requestAnimationFrame callback        *)
(* animate() runs.  Events of the hosted-field layer, submit requests,     *)
(* promise resolutions and timer callbacks are separate actions that run   *)
(* between frames, each atomically (single-threaded event loop).           *)
(*                                                                         *)
(* Angles are integers: PI is 2*HalfPiUnits units, so pi/2 is on the grid. *)
(* Lengths in world space are in 0.001 units, screen geometry in pixels.    *)
(***************************************************************************)
EXTENDS Integers, Sequences, FiniteSets, TLC

\* ---------------------------------------------------------------- bounds
HalfPiUnits == 40          \* angle units in pi/2 (resolution of rotation.y)
FrameMs == 400             \* milliseconds between two animation frames
SlowFrameMs == 5000        \* the same, for a throttled frame loop
MaxTweens == 2             \* rotation tweens alive at once
MaxGlows == 2              \* fieldGlow meshes attached at once
MaxAttempts == 1           \* processPayment calls in flight at once
MaxPayments == 1           \* processPayment calls started in one run
MaxOverlap == 2            \* the same two, where payments may overlap
MaxFlowFocus == 1          \* focus events in one run of the payment flow
MaxToggles == 4            \* toggleParticles calls in one run
MaxRequests == 2           \* POST /checkout requests in one run

\* ------------------------------------------------------ program constants
FlipDuration == 800
ResetDelay == 3000
StatusHideDelay == 5000
BounceDuration == 500          \* each half of the celebration tween, ms
BouncePeakMilli == 1000        \* its target position.y, 0.001 world units

FovTanMilli == 767             \* 1000 * tan(75 degrees / 2), camera fov
CameraDistance == 8            \* camera.position.z, card at the origin
CardWidthMilli == 4000         \* card geometry width, 0.001 world units
CardHeightMilli == 2500        \* card geometry height
FloatAmpMilli == 100           \* amplitude of the idle float of position.y

\* colours of the themes, as the hex values given to setHex
DefaultFog == 1981554       \* 0x1e3c72
DefaultCard == 2899536      \* 0x2c3e50
CyberpunkFog == 3342438     \* 0x330066
CyberpunkCard == 1710638    \* 0x1a1a2e
SpaceFog == 17              \* 0x000011
SpaceCard == 986915         \* 0x0f0f23

\* HTTP statuses of the /checkout responses
StatusOk == 200
StatusBadRequest == 400
StatusServerError == 500

PI == 2 * HalfPiUnits
FrontRest == PI \div 10                       \* Math.PI * 0.1
BackRest == PI                                \* Math.PI

Fields == {"number", "expirationDate", "cvv", "postalCode"}
Regions == {"number", "expiry", "cvv", "postal", "submit"}

ClearedField == [valid |-> FALSE, focused |-> FALSE]

\* window sizes <<innerWidth, innerHeight>> a run may see
Viewports == {<<1920, 1080>>, <<800, 600>>}
InitialViewport == <<1920, 1080>>

\* values Math.sin(clock.elapsedTime * 0.5) * 0.1 is sampled at, in 0.001 units
FloatValues == {-FloatAmpMilli, FloatAmpMilli}

\* what getCardScreenSize needs to exist
SceneParts == {"cardGroup", "camera", "renderer"}

\* toggleTheme's list, and the names applyTheme is called with here:
\* the three of the list and one that is in no case label
Themes == <<"default", "cyberpunk", "space">>
ThemeArgs == {"default", "cyberpunk", "space", "neon"}

\* the particle cloud built by createParticles during init
InitialCloud == 1

\* card brands a cardTypeChange event may carry ("none": no candidate)
CardTypes == {"visa", "master-card"}

\* what await hostedFields.tokenize() may give: a rejection, a payload
\* whose nonce is empty, or a payload with a nonce
Nonces == {"nonce_a", "nonce_b"}
TokenizeResults == {"rejected", ""} \cup Nonces

\* values of paymentMethodNonce and amount in a request body ("absent":
\* the key is missing), and the ways gateway.transaction.sale may end
BodyNonces == {"absent", "", "nonce_a"}
BodyAmounts == {"absent", "", "29.99"}
SaleResults == {"success", "failure", "throws"}

\* what await gateway.clientToken.generate() may give: a rejection, a
\* response object that carries no clientToken, or one that carries a token
ClientTokens == {"token_a"}
GenerateResults == {"throws", "noToken"} \cup ClientTokens

Abs(x) == IF x < 0 THEN -x ELSE x
Min(a, b) == IF a < b THEN a ELSE b

VARIABLES
  fieldStates,   \* BraintreeIntegration.fieldStates
  currentStep,   \* CheckoutApp.currentStep
  btnDisabled,   \* #submit-button .disabled
  spinner,       \* .btn-spinner shown (processing indicator)
  attempts,      \* processPayment calls in flight, each at its await
  started,       \* number of processPayment calls started so far
  statusShown,   \* #payment-status displayed
  hideTimers,    \* pending setTimeout(hide status), ms remaining
  resetTimers,   \* pending setTimeout(resetForm), ms remaining
  glows,         \* meshes named 'fieldGlow' attached to cardGroup
  successGlows,  \* success glow meshes attached to cardGroup
  flipped,       \* #checkout-form-container has class 'card-flipped'
  rotY,          \* cardGroup.rotation.y
  tweens,        \* active TWEEN tweens on cardGroup.rotation, in start order
  bounces,       \* active TWEEN tweens on cardGroup.position, in start order
  overlay,       \* styles last written by updateIndividualFieldPositions
  lastFocus,     \* field of the most recent focus event ("none" before any)
  sinceFocus,    \* ms elapsed since that event, capped at FlipDuration
  resizedMidTween, \* the last resize came while a rotation tween was running
  initialized,   \* BraintreeIntegration.isInitialized and hostedFields set
  errorCalls,    \* calls of CheckoutApp.handlePaymentError so far
  unhandled,     \* a processPayment promise rejected with no handler attached
  posY,          \* cardGroup.position.y, 0.001 world units
  container,     \* left/top/width/height last written to the form container, px
  rendered,      \* card transform drawn by the last render call
  frameScheduled, \* a requestAnimationFrame(animate) callback is pending
  lastLayout,    \* how the last updateFieldPositions call ended
  viewport,      \* <<window.innerWidth, window.innerHeight>>
  cameraAspect,  \* camera.aspect as the pair <<width, height>> it was set from
  canvasSize,    \* <<clientWidth, clientHeight>> of renderer.domElement
  layoutThrows,  \* the projection inside the layout pass raises when it runs
  constructed,   \* which of cardGroup, camera, renderer exist
  containerPresent, \* #checkout-form-container is in the document
  currentTheme,  \* ThreeScene.currentTheme
  fogColor,      \* scene.fog.color
  cardColor,     \* creditCard.material.color
  particlesEnabled, \* ThreeScene.particlesEnabled
  particlesVisible, \* particles.visible
  particleCloud, \* which Points object this.particles refers to
  lastApplied,   \* argument of the most recent applyTheme call ("none" before)
  appliedTwice,  \* that call repeated the argument of the call before it
  toggles,       \* toggleParticles calls so far
  initPc,        \* where CheckoutApp.initialize() stands
  failedAt,      \* the initialization step that raised ("none" if none did)
  propagated,    \* initialize() rejected to its caller
  appInitialized, \* CheckoutApp.isInitialized
  submitRegistered, \* the form's submit listener is attached
  hostedReady,   \* hosted fields exist and their listeners are attached
  layoutTimer,   \* init()'s setTimeout(updateFieldPositions, 100) is pending
  cardData,      \* ThreeScene.cardData
  checkouts,     \* POST /checkout requests the server has received
  isAnimating,   \* ThreeScene.isAnimating
  resizeListening, \* the scene's 'resize' listener is registered on window
  tokenReqs,     \* GET /client-token requests the server has received
  clientToken,   \* BraintreeIntegration.clientToken ("none": null)
  tokenPc        \* where BraintreeIntegration.getClientToken() stands

payVars == <<currentStep, btnDisabled, spinner, attempts, started,
             statusShown, hideTimers, resetTimers>>
sceneVars == <<glows, successGlows, flipped, rotY, tweens, bounces, overlay>>
histVars == <<lastFocus, sinceFocus, resizedMidTween>>
errVars == <<initialized, errorCalls, unhandled>>
frameVars == <<posY, container, rendered, frameScheduled, lastLayout>>
sizeVars == <<viewport, cameraAspect, canvasSize>>
envVars == <<layoutThrows, constructed, containerPresent>>
geomVars == <<frameVars, sizeVars, envVars>>
themeVars == <<currentTheme, fogColor, cardColor, lastApplied, appliedTwice>>
particleVars == <<particlesEnabled, particlesVisible, particleCloud, toggles>>
bootVars == <<initPc, failedAt, propagated, appInitialized, submitRegistered,
              hostedReady, layoutTimer>>
lifeVars == <<isAnimating, resizeListening>>
tokenVars == <<tokenReqs, clientToken, tokenPc>>
restVars == <<cardData, checkouts, lifeVars, tokenVars>>
otherVars == <<themeVars, particleVars, bootVars, restVars>>
vars == <<fieldStates, payVars, sceneVars, histVars, errVars, geomVars,
          otherVars>>

\* ------------------------------------------------------------ pure parts

\* braintree-integration.js isFormValid / updateSubmitButtonState
AllValid(fs) == \A f \in Fields : fs[f].valid
IsFormValid == AllValid(fieldStates)

\* TWEEN.Easing.Quadratic.InOut at k = e/d, as a numerator over 2*d*d
EaseNum(e, d) ==
  IF 2 * e < d THEN 4 * e * e
  ELSE d * d + (2 * e - d) * (3 * d - 2 * e)

\* a tween that moves at constant speed and stops halfway
TweenValue_m(tw) ==
  tw.from + ((tw.to - tw.from) * tw.elapsed) \div (2 * FlipDuration)

\* value a rotation tween writes after `elapsed` ms
TweenValue(tw) ==
  tw.from + ((tw.to - tw.from) * EaseNum(tw.elapsed, FlipDuration))
              \div (2 * FlipDuration * FlipDuration)

IsCardFlipped_m(y) == 2 * Abs(y) >= PI

\* three-scene.js updateFieldPositions: isCardFlipped
IsCardFlipped(y) == 2 * Abs(y) > PI

UpdateIndividualFieldPositions_m(isCardFlipped) ==
  [number |-> [left |-> 15, top |-> 60, width |-> 90, height |-> 12,
               opacity |-> IF isCardFlipped THEN 0 ELSE 1,
               pointer |-> ~isCardFlipped],
   expiry |-> [left |-> 15, top |-> 75, width |-> 35, height |-> 10,
               opacity |-> IF isCardFlipped THEN 0 ELSE 1,
               pointer |-> ~isCardFlipped],
   cvv    |-> [left |-> 60, top |-> 40, width |-> 25, height |-> 10,
               opacity |-> IF isCardFlipped THEN 1 ELSE 0,
               pointer |-> isCardFlipped],
   postal |-> [left |-> 15, top |-> 110, width |-> 40, height |-> 10,
               opacity |-> 1, pointer |-> TRUE],
   submit |-> [left |-> 25, top |-> 130, width |-> 50, height |-> 15,
               opacity |-> 1, pointer |-> TRUE]]

\* three-scene.js updateIndividualFieldPositions: the styles of each region
UpdateIndividualFieldPositions(isCardFlipped) ==
  [number |-> [left |-> 15, top |-> 60, width |-> 70, height |-> 12,
               opacity |-> IF isCardFlipped THEN 0 ELSE 1,
               pointer |-> ~isCardFlipped],
   expiry |-> [left |-> 15, top |-> 75, width |-> 35, height |-> 10,
               opacity |-> IF isCardFlipped THEN 0 ELSE 1,
               pointer |-> ~isCardFlipped],
   cvv    |-> [left |-> 60, top |-> 40, width |-> 25, height |-> 10,
               opacity |-> IF isCardFlipped THEN 1 ELSE 0,
               pointer |-> isCardFlipped],
   postal |-> [left |-> 15, top |-> 110, width |-> 40, height |-> 10,
               opacity |-> 1, pointer |-> TRUE],
   submit |-> [left |-> 25, top |-> 130, width |-> 50, height |-> 15,
               opacity |-> 1, pointer |-> TRUE]]

\* three-scene.js updateFieldPositions
UpdateFieldPositions(y) == UpdateIndividualFieldPositions(IsCardFlipped(y))

\* Vector3.project(camera) for a point of the plane z = 0, in 0.001 NDC units;
\* aspect is the pair camera.aspect was computed from
NdcY(y) == (y * 1000) \div (CameraDistance * FovTanMilli)

NdcX(x, aspect) == (NdcY(x) * aspect[2]) \div aspect[1]

\* getCardScreenSize once its null guard is passed: the projected corners of
\* the card at height y, in pixels of a canvas of the given client size
GetCardScreenSize(aspect, canvas, y) ==
  LET tlX == ((NdcX(-(CardWidthMilli \div 2), aspect) + 1000) * canvas[1])
               \div 2000
      brX == ((NdcX(CardWidthMilli \div 2, aspect) + 1000) * canvas[1])
               \div 2000
      tlY == ((1000 - NdcY(y + CardHeightMilli \div 2)) * canvas[2]) \div 2000
      brY == ((1000 - NdcY(y - CardHeightMilli \div 2)) * canvas[2]) \div 2000
  IN  [left |-> tlX, top |-> tlY,
       width |-> Abs(brX - tlX), height |-> Abs(brY - tlY)]

\* TWEEN.update(): every active tween, in start order, advanced by dt and
\* written to rotation.y; the value left is the one written last
RECURSIVE TweenWrites(_, _, _)
TweenWrites(tws, y, dt) ==
  IF tws = <<>> THEN y
  ELSE TweenWrites(Tail(tws),
                   TweenValue([Head(tws) EXCEPT
                     !.elapsed = Min(@ + dt, FlipDuration)]),
                   dt)

\* tweens still running after update (a finished tween is removed)
RECURSIVE TweenRest(_, _)
TweenRest(tws, dt) ==
  IF tws = <<>> THEN <<>>
  ELSE LET h == Head(tws)
       IN  (IF h.elapsed + dt >= FlipDuration THEN <<>>
            ELSE <<[h EXCEPT !.elapsed = @ + dt]>>)
           \o TweenRest(Tail(tws), dt)

\* TWEEN.Easing.Quadratic.Out and TWEEN.Easing.Bounce.Out at k = e/d, in
\* 0.001
QuadOutMilli(e, d) == (1000 * e * (2 * d - e)) \div (d * d)

BounceOutMilli(e, d) ==
  IF 11 * e < 4 * d
    THEN (121 * e * e * 125) \div (2 * d * d)
  ELSE IF 11 * e < 8 * d
    THEN ((11 * e - 6 * d) * (11 * e - 6 * d) * 125) \div (2 * d * d) + 750
  ELSE IF 11 * e < 10 * d
    THEN ((11 * e - 9 * d) * (11 * e - 9 * d) * 125) \div (2 * d * d) + 937
  ELSE ((22 * e - 21 * d) * (22 * e - 21 * d) * 125) \div (8 * d * d) + 984

\* value a tween of the celebration writes to position.y: the first half
\* rises to the peak, the chained half returns to 0
BounceValue(b) ==
  IF b.phase = "up"
    THEN b.from + ((BouncePeakMilli - b.from)
                     * QuadOutMilli(b.elapsed, BounceDuration)) \div 1000
    ELSE b.from - (b.from * BounceOutMilli(b.elapsed, BounceDuration))
                     \div 1000

\* TWEEN.update() on the position tweens: the value of position.y left by
\* the tween updated last (y when there is none)
RECURSIVE PositionWrites(_, _, _)
PositionWrites(bs, y, dt) ==
  IF bs = <<>> THEN y
  ELSE PositionWrites(Tail(bs),
                      BounceValue([Head(bs) EXCEPT
                        !.elapsed = Min(@ + dt, BounceDuration)]),
                      dt)

\* position tweens alive after update: a finished first half starts the
\* chained one, which reads the position just written; a finished chained
\* one is removed
RECURSIVE BounceRest(_, _)
BounceRest(bs, dt) ==
  IF bs = <<>> THEN <<>>
  ELSE LET h == Head(bs)
       IN  (IF h.elapsed + dt < BounceDuration
              THEN <<[h EXCEPT !.elapsed = @ + dt]>>
            ELSE IF h.phase = "up"
              THEN <<[phase |-> "down", from |-> BouncePeakMilli,
                      elapsed |-> 0]>>
            ELSE <<>>)
           \o BounceRest(Tail(bs), dt)

\* three-scene.js applyTheme: the colours its switch sets for a name
ThemeColours(theme) ==
  IF theme = "cyberpunk" THEN [fog |-> CyberpunkFog, card |-> CyberpunkCard]
  ELSE IF theme = "space" THEN [fog |-> SpaceFog, card |-> SpaceCard]
  ELSE [fog |-> DefaultFog, card |-> DefaultCard]

\* Array.prototype.indexOf on toggleTheme's list, 0-based, -1 when absent
ThemeIndexOf(theme) ==
  IF \E i \in 1..Len(Themes) : Themes[i] = theme
    THEN (CHOOSE i \in 1..Len(Themes) : Themes[i] = theme) - 1
    ELSE -1

\* the theme, particle and card data state the ThreeScene constructor and
\* init leave
ControlsInit ==
  /\ currentTheme = "default"
  /\ fogColor = DefaultFog
  /\ cardColor = DefaultCard
  /\ particlesEnabled = TRUE
  /\ particlesVisible = TRUE
  /\ particleCloud = InitialCloud
  /\ lastApplied = "none"
  /\ appliedTwice = FALSE
  /\ toggles = 0
  /\ cardData = [f \in Fields |-> ""]
  /\ isAnimating = TRUE

\* CheckoutApp.initialize() has run to its end
BootDone ==
  /\ resizeListening = TRUE
  /\ clientToken \in ClientTokens
  /\ tokenPc = "done"
  /\ initPc = "done"
  /\ failedAt = "none"
  /\ propagated = FALSE
  /\ appInitialized = TRUE
  /\ submitRegistered = TRUE
  /\ hostedReady = TRUE
  /\ layoutTimer = FALSE

\* --------------------------------------------------------------- initial
Init ==
  /\ fieldStates = [f \in Fields |-> ClearedField]
  /\ currentStep = "form"
  /\ btnDisabled \in BOOLEAN     \* markup of the page, not in the sources
  /\ spinner = FALSE
  /\ attempts = <<>>
  /\ started = 0
  /\ statusShown = FALSE
  /\ hideTimers = {}
  /\ resetTimers = {}
  /\ glows = 0
  /\ successGlows = 0
  /\ flipped = FALSE
  /\ rotY = FrontRest
  /\ tweens = <<>>
  /\ bounces = <<>>
  /\ overlay = UpdateFieldPositions(FrontRest)
  /\ lastFocus = "none"
  /\ sinceFocus = 0
  /\ resizedMidTween = FALSE
  /\ initialized = TRUE
  /\ errorCalls = 0
  /\ unhandled = FALSE
  /\ posY = 0
  /\ container = GetCardScreenSize(InitialViewport, InitialViewport, 0)
  /\ rendered = [rotY |-> rotY, posY |-> 0]
  /\ frameScheduled = TRUE
  /\ lastLayout = "written"
  /\ viewport = InitialViewport
  /\ cameraAspect = InitialViewport
  /\ canvasSize = InitialViewport
  /\ layoutThrows = FALSE
  /\ constructed = SceneParts
  /\ containerPresent = TRUE
  /\ ControlsInit
  /\ checkouts = <<>>
  /\ tokenReqs = <<>>
  /\ BootDone

\* ------------------------------------------------- scene (three-scene.js)

\* a rotation tween started now: TWEEN reads the start value at start()
NewTween(target) == [from |-> rotY, to |-> target, elapsed |-> 0]

ShowCVVOverlay == flipped' = TRUE

HideCVVOverlay == flipped' = FALSE

FlipCardToBack_m ==
  /\ flipped' = TRUE
  /\ tweens' = tweens

FlipCardToBack ==
  /\ flipped' = TRUE
  /\ tweens' = Append(tweens, NewTween(BackRest))

FlipCardToFront_m ==
  /\ flipped' = FALSE
  /\ tweens' = tweens

FlipCardToFront ==
  /\ flipped' = FALSE
  /\ tweens' = Append(tweens, NewTween(FrontRest))

AddFieldGlow == glows' = glows + 1

\* getObjectByName finds one mesh; that one is removed
RemoveFieldGlow == glows' = IF glows > 0 THEN glows - 1 ELSE 0

\* a scene that turns the card to its back for the expiry field as well
OnFieldFocused_m(f) ==
  /\ IF f \in {"cvv", "expirationDate"}
       THEN FlipCardToBack /\ ShowCVVOverlay
       ELSE FlipCardToFront /\ HideCVVOverlay
  /\ AddFieldGlow
  /\ UNCHANGED <<successGlows, rotY, bounces, overlay>>

OnFieldFocused(f) ==
  /\ IF f = "cvv"
       THEN FlipCardToBack /\ ShowCVVOverlay
       ELSE FlipCardToFront /\ HideCVVOverlay
  /\ AddFieldGlow
  /\ UNCHANGED <<successGlows, rotY, bounces, overlay>>

OnFieldBlurred_m(f) ==
  /\ RemoveFieldGlow
  /\ tweens' = Append(tweens, NewTween(FrontRest))
  /\ UNCHANGED <<successGlows, flipped, rotY, bounces, overlay>>

OnFieldBlurred(f) ==
  /\ RemoveFieldGlow
  /\ UNCHANGED <<successGlows, flipped, rotY, tweens, bounces, overlay>>

\* the success glow mesh is added to cardGroup and referenced nowhere else
\* and the celebration tween is started on cardGroup.position
AnimateSuccess ==
  /\ successGlows' = successGlows + 1
  /\ bounces' = Append(bounces, [phase |-> "up", from |-> posY, elapsed |-> 0])
  /\ UNCHANGED <<glows, flipped, rotY, tweens, overlay>>

LayoutOutcome_m ==
  IF constructed # SceneParts THEN "thrown"
  ELSE IF layoutThrows THEN "thrown"
  ELSE IF ~containerPresent THEN "skipped"
  ELSE "written"

\* how a call of updateFieldPositions ends: getCardScreenSize returns null
\* unless cardGroup, camera and renderer exist; the projection may raise; the
\* pass returns when the container element is missing
LayoutOutcome ==
  IF constructed # SceneParts THEN "skipped"
  ELSE IF layoutThrows THEN "thrown"
  ELSE IF ~containerPresent THEN "skipped"
  ELSE "written"

\* updateFieldPositions with the card at rotation y and height py
LayoutPass(y, py) ==
  /\ lastLayout' = LayoutOutcome
  /\ IF LayoutOutcome = "written"
       THEN /\ container' = GetCardScreenSize(cameraAspect, canvasSize, py)
            /\ overlay' = UpdateFieldPositions(y)
       ELSE UNCHANGED <<container, overlay>>

Animate_m(dt, p) ==
  /\ frameScheduled' = TRUE
  /\ LayoutPass(rotY, posY)
  /\ rotY' = TweenWrites(tweens, rotY, dt)
  /\ tweens' = TweenRest(tweens, dt)
  /\ bounces' = BounceRest(bounces, dt)
  /\ posY' = p
  /\ rendered' = IF LayoutOutcome = "thrown" THEN rendered
                 ELSE [rotY |-> rotY', posY |-> p]
  /\ UNCHANGED <<glows, successGlows, flipped, sizeVars, envVars,
                 themeVars, particleVars>>

\* animate() once isAnimating is false: it returns at its first statement
\* and requests no further frame
AnimateReturns ==
  /\ frameScheduled' = FALSE
  /\ UNCHANGED <<rotY, tweens, posY, lastLayout, container, overlay,
                 rendered, glows, successGlows, flipped, bounces, sizeVars,
                 envVars, themeVars, particleVars>>

\* animate(): the next frame is requested first, then TWEEN.update(), the
\* idle float (p is its value at this frame's clock reading), the overlay
\* layout pass and the render call; an exception leaves animate() where it
\* is raised
Animate(dt, p) ==
  IF ~isAnimating THEN AnimateReturns
  ELSE
  /\ frameScheduled' = TRUE
  /\ rotY' = TweenWrites(tweens, rotY, dt)
  /\ tweens' = TweenRest(tweens, dt)
  /\ bounces' = BounceRest(bounces, dt)
  /\ posY' = p
  /\ LayoutPass(rotY', p)
  /\ rendered' = IF LayoutOutcome = "thrown" THEN rendered
                 ELSE [rotY |-> rotY', posY |-> p]
  /\ UNCHANGED <<glows, successGlows, flipped, sizeVars, envVars,
                 themeVars, particleVars>>

OnWindowResize_m(vp) ==
  /\ {"camera", "renderer"} \subseteq constructed
  /\ vp # viewport
  /\ viewport' = vp
  /\ canvasSize' = vp
  /\ resizedMidTween' = (tweens # <<>>)
  /\ UNCHANGED <<fieldStates, payVars, sceneVars, lastFocus, sinceFocus,
                 errVars, frameVars, envVars, otherVars, cameraAspect>>

\* onWindowResize with the window now of size vp
OnWindowResize(vp) ==
  /\ {"camera", "renderer"} \subseteq constructed
  /\ vp # viewport
  /\ viewport' = vp
  /\ cameraAspect' = vp
  /\ canvasSize' = vp
  /\ resizedMidTween' = (tweens # <<>>)
  /\ UNCHANGED <<fieldStates, payVars, sceneVars, lastFocus, sinceFocus,
                 errVars, frameVars, envVars, otherVars>>

\* a 'resize' event of the window: the scene's handler runs if its listener
\* is registered
WindowResize(vp) ==
  IF resizeListening THEN OnWindowResize(vp)
  ELSE /\ vp # viewport
       /\ viewport' = vp
       /\ UNCHANGED <<fieldStates, payVars, sceneVars, histVars, errVars,
                      frameVars, envVars, otherVars, cameraAspect,
                      canvasSize>>

\* ThreeScene.dispose: isAnimating = false, renderer and controls disposed;
\* removeEventListener is handed this.onWindowResize, which is not the bound
\* function addEventListeners registered, so the listener stays
SceneDispose ==
  /\ isAnimating
  /\ isAnimating' = FALSE
  /\ UNCHANGED <<fieldStates, payVars, sceneVars, histVars, errVars,
                 geomVars, themeVars, particleVars, bootVars, cardData,
                 checkouts, resizeListening, tokenVars>>

\* updateFieldPositions called on its own (the timer init() sets, 100 ms)
LayoutRequest ==
  /\ LayoutPass(rotY, posY)
  /\ UNCHANGED <<fieldStates, payVars, histVars, errVars, glows,
                 successGlows, flipped, rotY, tweens, bounces, posY, rendered,
                 frameScheduled, sizeVars, envVars, otherVars>>

\* the environment: the projection starts, or stops, raising
LayoutFaultBegins ==
  /\ ~layoutThrows
  /\ layoutThrows' = TRUE
  /\ UNCHANGED <<fieldStates, payVars, sceneVars, histVars, errVars,
                 frameVars, sizeVars, constructed, containerPresent,
                 otherVars>>

LayoutFaultEnds ==
  /\ layoutThrows
  /\ layoutThrows' = FALSE
  /\ UNCHANGED <<fieldStates, payVars, sceneVars, histVars, errVars,
                 frameVars, sizeVars, constructed, containerPresent,
                 otherVars>>

\* a theme application that mixes the new colours into the ones in place
ApplyTheme_m(theme) ==
  /\ fogColor' = (fogColor + ThemeColours(theme).fog) \div 2
  /\ cardColor' = (cardColor + ThemeColours(theme).card) \div 2

ApplyTheme(theme) ==
  /\ fogColor' = ThemeColours(theme).fog
  /\ cardColor' = ThemeColours(theme).card

\* history of applyTheme calls
ThemeApplied(theme) ==
  /\ lastApplied' = theme
  /\ appliedTwice' = (lastApplied = theme)

ToggleTheme ==
  /\ "renderer" \in constructed
  /\ currentTheme' = Themes[((ThemeIndexOf(currentTheme) + 1) % Len(Themes)) + 1]
  /\ ApplyTheme(currentTheme')
  /\ ThemeApplied(currentTheme')
  /\ UNCHANGED <<fieldStates, payVars, sceneVars, histVars, errVars,
                 geomVars, particleVars, bootVars, restVars>>

\* applyTheme called directly with any name
ApplyThemeCall(theme) ==
  /\ "renderer" \in constructed
  /\ ApplyTheme(theme)
  /\ ThemeApplied(theme)
  /\ UNCHANGED <<fieldStates, payVars, sceneVars, histVars, errVars,
                 geomVars, currentTheme, particleVars, bootVars,
                 restVars>>

\* a toggle that builds a new particle cloud when it turns the cloud on
ToggleParticles_m ==
  /\ toggles < MaxToggles
  /\ particlesEnabled' = ~particlesEnabled
  /\ particlesVisible' = particlesEnabled'
  /\ particleCloud' = IF particlesEnabled' THEN particleCloud + 1
                      ELSE particleCloud
  /\ toggles' = toggles + 1
  /\ UNCHANGED <<fieldStates, payVars, sceneVars, histVars, errVars,
                 geomVars, themeVars, bootVars, restVars>>

ToggleParticles ==
  /\ toggles < MaxToggles
  /\ particlesEnabled' = ~particlesEnabled
  /\ particlesVisible' = particlesEnabled'
  /\ toggles' = toggles + 1
  /\ UNCHANGED <<fieldStates, payVars, sceneVars, histVars, errVars,
                 geomVars, themeVars, particleCloud, bootVars,
                 restVars>>

\* ------------------------------------- hosted fields (braintree-integration.js)

HandleFieldFocus_m(f) ==
  /\ Len(tweens) < MaxTweens
  /\ glows < MaxGlows
  /\ fieldStates' = [fieldStates EXCEPT ![f].focused = TRUE]
  /\ OnFieldFocused(f)
  /\ lastFocus' = f
  /\ sinceFocus' = 0
  /\ resetTimers' = {}
  /\ UNCHANGED <<currentStep, btnDisabled, spinner, attempts, started,
                 statusShown, hideTimers, resizedMidTween, errVars, geomVars, otherVars>>

\* handleFieldFocus, with the onFieldFocus callback into the scene
HandleFieldFocus(f) ==
  /\ Len(tweens) < MaxTweens
  /\ glows < MaxGlows
  /\ fieldStates' = [fieldStates EXCEPT ![f].focused = TRUE]
  /\ OnFieldFocused(f)
  /\ lastFocus' = f
  /\ sinceFocus' = 0
  /\ UNCHANGED <<payVars, resizedMidTween, errVars, geomVars, otherVars>>

\* a blur that also takes the valid flag from the other fields
HandleFieldBlur_m(f) ==
  /\ fieldStates' = [g \in Fields |->
                       IF g = f THEN [fieldStates[g] EXCEPT !.focused = FALSE]
                       ELSE [fieldStates[g] EXCEPT !.valid = FALSE]]
  /\ OnFieldBlurred(f)
  /\ UNCHANGED <<payVars, histVars, errVars, geomVars, otherVars>>

HandleFieldBlur(f) ==
  /\ fieldStates' = [fieldStates EXCEPT ![f].focused = FALSE]
  /\ OnFieldBlurred(f)
  /\ UNCHANGED <<payVars, histVars, errVars, geomVars, otherVars>>

\* a button that is enabled as soon as one field is valid
UpdateSubmitButtonState_m(fs) == btnDisabled' = ~(\E f \in Fields : fs[f].valid)

\* updateSubmitButtonState, on the field states fs
UpdateSubmitButtonState(fs) == btnDisabled' = ~AllValid(fs)

\* the second argument of onFieldUpdate is a boolean for validity events
\* and the brand name for card-type events; all are written as strings here
BoolArg(b) == IF b THEN "true" ELSE "false"

\* JavaScript truthiness of such an argument
Truthy(v) == v \notin {"false", ""}

\* CheckoutApp.scene is set from initializeScene until dispose(); hosted-field
\* events arrive only after the payment integration was initialized
SceneAttached == initialized

\* three-scene.js updateCardData: the entry is stored under the given key
UpdateCardData(field, value) ==
  cardData' = [k \in DOMAIN cardData \cup {field} |->
                 IF k = field THEN value ELSE cardData[k]]

\* a coordinator that hands the argument it received on to the scene
HandleBraintreeFieldUpdate_m(fieldName, isValid) ==
  IF SceneAttached /\ Truthy(isValid)
    THEN UpdateCardData(fieldName, isValid)
    ELSE UNCHANGED cardData

\* checkout-3d.js handleBraintreeFieldUpdate
HandleBraintreeFieldUpdate(fieldName, isValid) ==
  IF SceneAttached /\ Truthy(isValid)
    THEN UpdateCardData(fieldName, IF Truthy(isValid) THEN "valid" ELSE "")
    ELSE UNCHANGED cardData

HandleValidityChange(f, isValid) ==
  /\ fieldStates' = [fieldStates EXCEPT ![f].valid = isValid]
  /\ UpdateSubmitButtonState(fieldStates')
  /\ IF isValid
       THEN HandleBraintreeFieldUpdate(f, BoolArg(isValid))
       ELSE UNCHANGED cardData
  /\ UNCHANGED <<currentStep, spinner, attempts, started, statusShown,
                 hideTimers, resetTimers, sceneVars, histVars, errVars,
                 geomVars, themeVars, particleVars, bootVars, checkouts,
                 lifeVars, tokenVars>>

\* handleCardTypeChange: the first candidate brand, if any, is announced
\* through onFieldUpdate under the name 'cardType'
HandleCardTypeChange(cardType) ==
  /\ IF cardType # "none"
       THEN HandleBraintreeFieldUpdate("cardType", cardType)
       ELSE UNCHANGED cardData
  /\ UNCHANGED <<fieldStates, payVars, sceneVars, histVars, errVars,
                 geomVars, themeVars, particleVars, bootVars, checkouts,
                 lifeVars, tokenVars>>

\* setPaymentProcessing(true)
SetPaymentProcessingOn ==
  /\ btnDisabled' = TRUE
  /\ spinner' = TRUE

\* setPaymentProcessing(false)
SetPaymentProcessingOff ==
  /\ btnDisabled' = ~AllValid(fieldStates)
  /\ spinner' = FALSE

\* processPayment up to its first await: hostedFields.tokenize() is called
ProcessPaymentStart ==
  /\ SetPaymentProcessingOn
  /\ attempts' = Append(attempts, [at |-> "tokenize", nonce |-> ""])
  /\ started' = started + 1

ShowPaymentStatus ==
  /\ statusShown' = TRUE
  /\ hideTimers' = hideTimers \cup {StatusHideDelay}

RemoveAt(seq, i) == SubSeq(seq, 1, i - 1) \o SubSeq(seq, i + 1, Len(seq))

\* CheckoutApp.handlePaymentError: back to the form step, message shown
AppHandlePaymentError ==
  /\ currentStep' = "form"
  /\ errorCalls' = errorCalls + 1

PaymentFailed_m(i) ==
  /\ ShowPaymentStatus
  /\ UNCHANGED <<currentStep, errorCalls>>
  /\ SetPaymentProcessingOff
  /\ attempts' = RemoveAt(attempts, i)
  /\ UNCHANGED <<fieldStates, started, resetTimers, sceneVars, histVars,
                 initialized, unhandled, geomVars, otherVars>>

\* the catch branch of processPayment, or its success:false branch:
\* handlePaymentError, the onPaymentError callback, then finally
PaymentFailed(i) ==
  /\ ShowPaymentStatus
  /\ AppHandlePaymentError
  /\ SetPaymentProcessingOff
  /\ attempts' = RemoveAt(attempts, i)
  /\ UNCHANGED <<fieldStates, started, resetTimers, sceneVars, histVars,
                 initialized, unhandled, geomVars, otherVars>>

\* a success that is reported through the error callback as well
PaymentSucceeded_m(i) ==
  /\ ShowPaymentStatus
  /\ currentStep' = "complete"
  /\ AnimateSuccess
  /\ resetTimers' = resetTimers \cup {ResetDelay}
  /\ SetPaymentProcessingOff
  /\ attempts' = RemoveAt(attempts, i)
  /\ errorCalls' = errorCalls + 1
  /\ UNCHANGED <<fieldStates, started, histVars, initialized, unhandled,
                 geomVars, otherVars>>

\* handlePaymentSuccess, CheckoutApp.handlePaymentSuccess, then finally
PaymentSucceeded(i) ==
  /\ ShowPaymentStatus
  /\ currentStep' = "complete"
  /\ AnimateSuccess
  /\ resetTimers' = resetTimers \cup {ResetDelay}
  /\ SetPaymentProcessingOff
  /\ attempts' = RemoveAt(attempts, i)
  /\ UNCHANGED <<fieldStates, started, histVars, errVars, geomVars, otherVars>>

\* a payment that sends whatever the payload holds as its nonce
TokenizeReturn_m(i, result) ==
  /\ i \in DOMAIN attempts
  /\ attempts[i].at = "tokenize"
  /\ IF result # "rejected"
       THEN /\ attempts' = [attempts EXCEPT
                              ![i] = [at |-> "charge", nonce |-> result]]
            /\ UNCHANGED <<fieldStates, currentStep, btnDisabled, spinner,
                           started, statusShown, hideTimers, resetTimers,
                           sceneVars, histVars, errVars, geomVars, otherVars>>
       ELSE PaymentFailed(i)

\* await hostedFields.tokenize() returns; with a nonce in the payload the
\* fetch of /checkout is issued, its body carrying payload.nonce
TokenizeReturn(i, result) ==
  /\ i \in DOMAIN attempts
  /\ attempts[i].at = "tokenize"
  /\ IF result # "rejected" /\ Truthy(result)
       THEN /\ attempts' = [attempts EXCEPT
                              ![i] = [at |-> "charge", nonce |-> result]]
            /\ UNCHANGED <<fieldStates, currentStep, btnDisabled, spinner,
                           started, statusShown, hideTimers, resetTimers,
                           sceneVars, histVars, errVars, geomVars, otherVars>>
       ELSE PaymentFailed(i)

\* await fetch('/checkout') and response.json() return
ChargeReturn(i, success) ==
  /\ i \in DOMAIN attempts
  /\ attempts[i].at = "charge"
  /\ IF success THEN PaymentSucceeded(i) ELSE PaymentFailed(i)

ResetForm_m ==
  /\ fieldStates' = [f \in Fields |-> [fieldStates[f] EXCEPT !.valid = FALSE]]
  /\ UpdateSubmitButtonState(fieldStates')
  /\ statusShown' = FALSE

\* resetForm
ResetForm ==
  /\ fieldStates' = [f \in Fields |-> ClearedField]
  /\ UpdateSubmitButtonState(fieldStates')
  /\ statusShown' = FALSE

\* the timer set by handlePaymentSuccess fires
ResetTimerFire ==
  /\ 0 \in resetTimers
  /\ resetTimers' = resetTimers \ {0}
  /\ ResetForm
  /\ UNCHANGED <<currentStep, spinner, attempts, started, hideTimers,
                 sceneVars, histVars, errVars, geomVars, otherVars>>

\* the timer set by showPaymentStatus fires
StatusHideFire ==
  /\ 0 \in hideTimers
  /\ hideTimers' = hideTimers \ {0}
  /\ statusShown' = FALSE
  /\ UNCHANGED <<fieldStates, currentStep, btnDisabled, spinner, attempts,
                 started, resetTimers, sceneVars, histVars, errVars, geomVars, otherVars>>

\* ------------------------------------------------ coordinator (checkout-3d.js)

\* processPayment called while not initialized: it throws before its try
\* block, so the promise it returns is rejected and nothing else has happened
ProcessPaymentThrows ==
  /\ started' = started + 1
  /\ UNCHANGED <<fieldStates, btnDisabled, spinner, attempts, statusShown,
                 hideTimers, resetTimers, sceneVars, histVars, initialized,
                 geomVars, otherVars>>

\* the rejection is awaited inside try/catch: handlePaymentError(message)
HandleFormSubmit ==
  IF ~IsFormValid
    THEN UNCHANGED vars
    ELSE IF ~initialized
      THEN /\ ProcessPaymentThrows
           /\ AppHandlePaymentError
           /\ UNCHANGED unhandled
      ELSE /\ currentStep' = "processing"
           /\ ProcessPaymentStart
           /\ UNCHANGED <<fieldStates, statusShown, hideTimers, resetTimers,
                          sceneVars, histVars, errVars, geomVars, otherVars>>

\* handleKeyboard with Ctrl+Enter
HandleKeyboard ==
  IF IsFormValid THEN HandleFormSubmit ELSE UNCHANGED vars

\* hostedFields 'inputSubmitRequest' listener: processPayment() is called
\* and its promise dropped
InputSubmitRequest ==
  IF ~initialized
    THEN /\ ProcessPaymentThrows
         /\ unhandled' = TRUE
         /\ UNCHANGED <<currentStep, errorCalls>>
    ELSE /\ ProcessPaymentStart
         /\ UNCHANGED <<fieldStates, currentStep, statusShown, hideTimers,
                        resetTimers, sceneVars, histVars, errVars, geomVars, otherVars>>

\* BraintreeIntegration.dispose: hostedFields.teardown() is started (it ends
\* asynchronously), hostedFields = null, isInitialized = false; callbacks,
\* field states and calls in flight are left as they are
Dispose ==
  /\ initialized
  /\ initialized' = FALSE
  /\ UNCHANGED <<fieldStates, payVars, sceneVars, histVars, errorCalls,
                 unhandled, geomVars, otherVars>>

\* ----------------------------------------- initialization (checkout-3d.js)

\* the catch of initialize(): showError, then the error is thrown again
InitializeFails(step) ==
  /\ initPc' = "failed"
  /\ failedAt' = step
  /\ propagated' = TRUE

\* getDOMElements: raises when a required element is missing
GetDOMElements(found) ==
  /\ initPc = "start"
  /\ IF found
       THEN /\ initPc' = "scene"
            /\ UNCHANGED <<failedAt, propagated>>
       ELSE InitializeFails("dom")
  /\ UNCHANGED <<fieldStates, payVars, sceneVars, histVars, errVars,
                 geomVars, themeVars, particleVars, appInitialized,
                 submitRegistered, hostedReady, layoutTimer, restVars>>

\* new ThreeScene(canvas), init() up to addEventListeners: setupRenderer
\* raises when no rendering context can be had, after scene and camera
SceneSetup(rendererOk) ==
  /\ initPc = "scene"
  /\ IF rendererOk
       THEN /\ constructed' = SceneParts
            /\ resizeListening' = TRUE
            /\ initPc' = "firstFrame"
            /\ UNCHANGED <<failedAt, propagated>>
       ELSE /\ constructed' = {"camera"}
            /\ UNCHANGED resizeListening
            /\ InitializeFails("scene")
  /\ UNCHANGED <<fieldStates, payVars, sceneVars, histVars, errVars,
                 frameVars, sizeVars, layoutThrows, containerPresent,
                 themeVars, particleVars, appInitialized, submitRegistered,
                 hostedReady, layoutTimer, cardData, checkouts, isAnimating,
                 tokenVars>>

\* init() from this.animate() on: the first frame runs inside the
\* constructor (clock at 0), and what it raises leaves init() before the
\* timer is set and fails the construction
SceneFirstFrame ==
  /\ initPc = "firstFrame"
  /\ Animate(0, 0)
  /\ IF LayoutOutcome = "thrown"
       THEN /\ InitializeFails("scene")
            /\ UNCHANGED layoutTimer
       ELSE /\ initPc' = "braintree"
            /\ layoutTimer' = TRUE
            /\ UNCHANGED <<failedAt, propagated>>
  /\ UNCHANGED <<fieldStates, payVars, histVars, errVars, appInitialized,
                 submitRegistered, hostedReady, restVars>>

\* the timer init() set fires: updateFieldPositions on its own
InitialLayoutFire ==
  /\ layoutTimer
  /\ layoutTimer' = FALSE
  /\ LayoutPass(rotY, posY)
  /\ UNCHANGED <<fieldStates, payVars, histVars, errVars, glows,
                 successGlows, flipped, rotY, tweens, bounces, posY, rendered,
                 frameScheduled, sizeVars, envVars, themeVars, particleVars,
                 initPc, failedAt, propagated, appInitialized,
                 submitRegistered, hostedReady, restVars>>

\* initializeBraintree: client token, client and hosted fields; the hosted
\* fields' listeners are attached by the last step that can fail
InitializeBraintree(ok) ==
  /\ initPc = "braintree"
  /\ tokenPc = "idle"
  /\ IF ok
       THEN /\ initialized' = TRUE
            /\ hostedReady' = TRUE
            /\ initPc' = "listeners"
            /\ clientToken' \in ClientTokens
            /\ tokenPc' = "done"
            /\ UNCHANGED <<failedAt, propagated>>
       ELSE /\ InitializeFails("braintree")
            /\ UNCHANGED <<initialized, hostedReady, clientToken, tokenPc>>
  /\ UNCHANGED <<fieldStates, payVars, sceneVars, histVars, errorCalls,
                 unhandled, geomVars, themeVars, particleVars,
                 appInitialized, submitRegistered, layoutTimer, cardData,
                 checkouts, lifeVars, tokenReqs>>

\* where setupEventListeners may raise: not at all, at its first statement
\* (the submit listener), or at a later one
ListenerOutcomes == {"ok", "failsFirst", "failsLater"}

\* setupEventListeners and, with no await in between, the end of
\* initialize(): hideLoadingScreen, setupInitialAnimations, the two flags
SetupEventListeners(outcome) ==
  /\ initPc = "listeners"
  /\ submitRegistered' = (outcome # "failsFirst")
  /\ IF outcome = "ok"
       THEN /\ appInitialized' = TRUE
            /\ currentStep' = "form"
            /\ initPc' = "done"
            /\ UNCHANGED <<failedAt, propagated>>
       ELSE /\ InitializeFails("listeners")
            /\ UNCHANGED <<appInitialized, currentStep>>
  /\ UNCHANGED <<fieldStates, btnDisabled, spinner, attempts, started,
                 statusShown, hideTimers, resetTimers, sceneVars, histVars,
                 errVars, geomVars, themeVars, particleVars, hostedReady,
                 layoutTimer, restVars>>

\* ------------------------------------------------------ server (server.js)

\* !value for a body field: undefined or the empty string
Missing(v) == v = "absent" \/ ~Truthy(v)

\* the response the handler sends for each end of the sale
SaleResponse(result) ==
  IF result = "success" THEN [status |-> StatusOk, success |-> TRUE]
  ELSE IF result = "failure" THEN [status |-> StatusBadRequest, success |-> FALSE]
  ELSE [status |-> StatusServerError, success |-> FALSE]

\* a handler whose validation answers 400 and then goes on to the sale
PostCheckout_m(nonce, amount) ==
  /\ Len(checkouts) < MaxRequests
  /\ checkouts' = Append(checkouts,
       [nonce |-> nonce, amount |-> amount, sale |-> "pending",
        responses |-> IF Missing(nonce) \/ Missing(amount)
                        THEN <<[status |-> StatusBadRequest, success |-> FALSE]>>
                        ELSE <<>>])
  /\ UNCHANGED <<fieldStates, payVars, sceneVars, histVars, errVars,
                 geomVars, themeVars, particleVars, bootVars, cardData,
                 lifeVars, tokenVars>>

\* app.post('/checkout') up to its await: the body is validated, and the
\* request is either answered with 400 or handed to the gateway
PostCheckout(nonce, amount) ==
  /\ Len(checkouts) < MaxRequests
  /\ checkouts' = Append(checkouts,
       IF Missing(nonce) \/ Missing(amount)
         THEN [nonce |-> nonce, amount |-> amount, sale |-> "notCalled",
               responses |-> <<[status |-> StatusBadRequest,
                                success |-> FALSE]>>]
         ELSE [nonce |-> nonce, amount |-> amount, sale |-> "pending",
               responses |-> <<>>])
  /\ UNCHANGED <<fieldStates, payVars, sceneVars, histVars, errVars,
                 geomVars, themeVars, particleVars, bootVars, cardData,
                 lifeVars, tokenVars>>

\* await gateway.transaction.sale() ends: the one response of the request
SaleReturns(i, result) ==
  /\ i \in DOMAIN checkouts
  /\ checkouts[i].sale = "pending"
  /\ checkouts' = [checkouts EXCEPT
                     ![i].sale = result,
                     ![i].responses = Append(@, SaleResponse(result))]
  /\ UNCHANGED <<fieldStates, payVars, sceneVars, histVars, errVars,
                 geomVars, themeVars, particleVars, bootVars, cardData,
                 lifeVars, tokenVars>>

\* app.get('/client-token') up to its await: generate() is called; fromApp
\* tells the request of BraintreeIntegration.getClientToken from any other
TokenRequest(fromApp) ==
  /\ Len(tokenReqs) < MaxRequests
  /\ tokenReqs' = Append(tokenReqs,
       [fromApp |-> fromApp, generate |-> "pending", responses |-> <<>>])
  /\ IF fromApp
       THEN /\ initPc = "braintree"
            /\ tokenPc = "idle"
            /\ tokenPc' = "fetching"
       ELSE UNCHANGED tokenPc
  /\ UNCHANGED <<fieldStates, payVars, sceneVars, histVars, errVars,
                 geomVars, themeVars, particleVars, bootVars, cardData,
                 checkouts, lifeVars, clientToken>>

\* the response the handler sends for each end of generate(): the try
\* branch copies response.clientToken whatever it is, and JSON drops an
\* undefined value; the catch branch answers 500
TokenResponse(result) ==
  IF result = "throws"
    THEN [status |-> StatusServerError, success |-> FALSE,
          clientToken |-> "absent", error |-> TRUE]
    ELSE [status |-> StatusOk, success |-> TRUE,
          clientToken |-> IF result \in ClientTokens THEN result ELSE "absent",
          error |-> FALSE]

\* await gateway.clientToken.generate() ends: the one response
GenerateReturns(i, result) ==
  /\ i \in DOMAIN tokenReqs
  /\ tokenReqs[i].generate = "pending"
  /\ tokenReqs' = [tokenReqs EXCEPT
                     ![i].generate = result,
                     ![i].responses = Append(@, TokenResponse(result))]
  /\ UNCHANGED <<fieldStates, payVars, sceneVars, histVars, errVars,
                 geomVars, themeVars, particleVars, bootVars, cardData,
                 checkouts, lifeVars, clientToken, tokenPc>>

\* test-app.js testClientToken: the response it accepts
TestClientToken(response) ==
  response.success /\ response.clientToken # "absent"

\* getClientToken after its awaits: data.success decides alone; the token
\* is stored as it came, and initialize() goes on to createClient
ClientReceives(i) ==
  /\ tokenPc = "fetching"
  /\ i \in DOMAIN tokenReqs
  /\ tokenReqs[i].fromApp
  /\ tokenReqs[i].responses # <<>>
  /\ IF tokenReqs[i].responses[1].success
       THEN /\ clientToken' = tokenReqs[i].responses[1].clientToken
            /\ tokenPc' = "createClient"
            /\ UNCHANGED bootVars
       ELSE /\ tokenPc' = "failed"
            /\ InitializeFails("braintree")
            /\ UNCHANGED <<clientToken, appInitialized, submitRegistered,
                           hostedReady, layoutTimer>>
  /\ UNCHANGED <<fieldStates, payVars, sceneVars, histVars, errVars,
                 geomVars, themeVars, particleVars, cardData, checkouts,
                 lifeVars, tokenReqs>>

\* fetch('/client-token') rejects: no response reaches the client
FetchRejected ==
  /\ tokenPc = "fetching"
  /\ tokenPc' = "failed"
  /\ InitializeFails("braintree")
  /\ UNCHANGED <<fieldStates, payVars, sceneVars, histVars, errVars,
                 geomVars, themeVars, particleVars, appInitialized,
                 submitRegistered, hostedReady, layoutTimer, cardData,
                 checkouts, lifeVars, tokenReqs, clientToken>>

\* ------------------------------------------------------------------ time

Elapse(timers, dt) == {IF t > dt THEN t - dt ELSE 0 : t \in timers}

\* one frame: dt ms pass, no due timer is skipped, animate() runs with the
\* idle float sampled at one of `floats`
Frame(dt, floats) ==
  /\ frameScheduled
  /\ constructed = SceneParts
  /\ 0 \notin hideTimers \cup resetTimers
  /\ hideTimers' = Elapse(hideTimers, dt)
  /\ resetTimers' = Elapse(resetTimers, dt)
  /\ \E p \in floats : Animate(dt, p)
  /\ sinceFocus' = IF lastFocus = "none" THEN 0
                   ELSE Min(sinceFocus + dt, FlipDuration)
  /\ UNCHANGED <<fieldStates, currentStep, btnDisabled, spinner, attempts,
                 started, statusShown, lastFocus, resizedMidTween, errVars,
                 bootVars, restVars>>

\* a frame with the float at either extreme
Tick(dt) == Frame(dt, FloatValues)

\* a frame of the throttled loop, sampled where the float passes through 0
SlowTick == Frame(SlowFrameMs, {0})

\* -------------------------------------------------------- specifications

FocusEvent == \E f \in Fields : HandleFieldFocus(f)
BlurEvent == \E f \in Fields : HandleFieldBlur(f)
ValidityEvent == \E f \in Fields, v \in BOOLEAN : HandleValidityChange(f, v)
TokenizeDone ==
  \E i \in DOMAIN attempts, r \in TokenizeResults : TokenizeReturn(i, r)
ChargeDone == \E i \in DOMAIN attempts, s \in BOOLEAN : ChargeReturn(i, s)

\* a run is cut off: processPayment is called while fewer than inFlight of
\* its calls are in flight and fewer than total have been started
MayStart(inFlight, total) == Len(attempts) < inFlight /\ started < total

\* the fields focused during the payment flow: one of each face of the card
FlowFields == {"number", "cvv"}
FlowFocusEvent == \E f \in FlowFields : HandleFieldFocus(f)

\* the payment flow, with a throttled frame loop; blur events are left to
\* SpecScene, and a run holds at most MaxFlowFocus focus events
Next ==
  \/ (glows < MaxFlowFocus /\ FlowFocusEvent)
  \/ ValidityEvent
  \/ (MayStart(MaxAttempts, MaxPayments) /\ HandleFormSubmit)
  \/ (MayStart(MaxAttempts, MaxPayments) /\ HandleKeyboard)
  \/ (MayStart(MaxAttempts, MaxPayments) /\ InputSubmitRequest)
  \/ TokenizeDone
  \/ ChargeDone
  \/ ResetTimerFire
  \/ StatusHideFire
  \/ SlowTick

Spec == Init /\ [][Next]_vars

\* the payment entry points around dispose(), with payments that overlap
NextLifecycle ==
  \/ ValidityEvent
  \/ (MayStart(MaxOverlap, MaxOverlap) /\ HandleFormSubmit)
  \/ (MayStart(MaxOverlap, MaxOverlap) /\ HandleKeyboard)
  \/ (MayStart(MaxOverlap, MaxOverlap) /\ InputSubmitRequest)
  \/ TokenizeDone
  \/ ChargeDone
  \/ Dispose
  \/ ResetTimerFire
  \/ StatusHideFire
  \/ SlowTick

SpecLifecycle == Init /\ [][NextLifecycle]_vars

\* the scene alone, frame by frame
NextScene ==
  \/ FocusEvent
  \/ BlurEvent
  \/ Tick(FrameMs)

SpecScene == Init /\ [][NextScene]_vars

\* the layout pass alone, applied to every rotation a flip passes through:
\* animate() after TWEEN.update() has written rotation.y, the overlay still as
\* the last frame left it (card on its front or on its back)
InitLayout ==
  /\ fieldStates = [f \in Fields |-> ClearedField]
  /\ currentStep = "form"
  /\ btnDisabled \in BOOLEAN
  /\ spinner = FALSE
  /\ attempts = <<>>
  /\ started = 0
  /\ statusShown = FALSE
  /\ hideTimers = {}
  /\ resetTimers = {}
  /\ glows = 0
  /\ successGlows = 0
  /\ flipped \in BOOLEAN
  /\ rotY \in FrontRest..BackRest
  /\ tweens = <<>>
  /\ bounces = <<>>
  /\ overlay \in {UpdateFieldPositions(FrontRest), UpdateFieldPositions(BackRest)}
  /\ lastFocus = "none"
  /\ sinceFocus = 0
  /\ resizedMidTween = FALSE
  /\ initialized = TRUE
  /\ errorCalls = 0
  /\ unhandled = FALSE
  /\ posY = 0
  /\ container = GetCardScreenSize(InitialViewport, InitialViewport, 0)
  /\ rendered = [rotY |-> rotY, posY |-> 0]
  /\ frameScheduled = TRUE
  /\ lastLayout = "written"
  /\ viewport = InitialViewport
  /\ cameraAspect = InitialViewport
  /\ canvasSize = InitialViewport
  /\ layoutThrows = FALSE
  /\ constructed = SceneParts
  /\ containerPresent = TRUE
  /\ ControlsInit
  /\ checkouts = <<>>
  /\ tokenReqs = <<>>
  /\ BootDone

NextLayout == Tick(FrameMs)

SpecLayout == InitLayout /\ [][NextLayout]_vars

ResizeEvent == \E vp \in Viewports : WindowResize(vp)

\* the scene with a window that is resized between frames
NextResize ==
  \/ FocusEvent
  \/ ResizeEvent
  \/ Tick(FrameMs)

SpecResize == Init /\ [][NextResize]_vars

\* the scene around its dispose(): events reach it while it is alive, frames
\* and window resizes go on afterwards
NextDispose ==
  \/ (isAnimating /\ FocusEvent)
  \/ SceneDispose
  \/ ResizeEvent
  \/ Tick(FrameMs)

SpecDispose == Init /\ [][NextDispose]_vars

\* payments that may overlap, frame by frame
NextSuccess ==
  \/ (MayStart(MaxOverlap, MaxOverlap) /\ InputSubmitRequest)
  \/ TokenizeDone
  \/ ChargeDone
  \/ ResetTimerFire
  \/ StatusHideFire
  \/ Tick(FrameMs)

SpecSuccess == Init /\ [][NextSuccess]_vars

\* the frame loop with a layout pass that raises in some frames
NextFault ==
  \/ FocusEvent
  \/ LayoutFaultBegins
  \/ LayoutFaultEnds
  \/ Tick(FrameMs)

SpecFault == Init /\ [][NextFault]_vars

\* updateFieldPositions called in every construction state of the scene
InitStartup ==
  /\ fieldStates = [f \in Fields |-> ClearedField]
  /\ currentStep = "loading"
  /\ btnDisabled \in BOOLEAN
  /\ spinner = FALSE
  /\ attempts = <<>>
  /\ started = 0
  /\ statusShown = FALSE
  /\ hideTimers = {}
  /\ resetTimers = {}
  /\ glows = 0
  /\ successGlows = 0
  /\ flipped = FALSE
  /\ rotY \in FrontRest..BackRest
  /\ tweens = <<>>
  /\ bounces = <<>>
  /\ overlay \in {UpdateFieldPositions(FrontRest), UpdateFieldPositions(BackRest)}
  /\ lastFocus = "none"
  /\ sinceFocus = 0
  /\ resizedMidTween = FALSE
  /\ initialized = FALSE
  /\ errorCalls = 0
  /\ unhandled = FALSE
  /\ posY = 0
  /\ \E vp \in Viewports : container = GetCardScreenSize(vp, vp, 0)
  /\ rendered = [rotY |-> rotY, posY |-> 0]
  /\ frameScheduled = FALSE
  /\ lastLayout = "none"
  /\ viewport \in Viewports
  /\ cameraAspect = viewport
  /\ canvasSize = viewport
  /\ layoutThrows = FALSE
  /\ constructed \in SUBSET SceneParts
  /\ containerPresent \in BOOLEAN
  /\ ControlsInit
  /\ checkouts = <<>>
  /\ tokenReqs = <<>>
  /\ BootDone

NextStartup == LayoutRequest

SpecStartup == InitStartup /\ [][NextStartup]_vars

\* the scene controls alone: theme button, applyTheme calls, particle toggle
ApplyThemeEvent == \E theme \in ThemeArgs : ApplyThemeCall(theme)
NextControls ==
  \/ ToggleTheme
  \/ ApplyThemeEvent
  \/ ToggleParticles
SpecControls == Init /\ [][NextControls]_vars

\* initialize() from the start, each step succeeding or failing, with the
\* frame loop and the events whose listeners exist
InitBoot ==
  /\ fieldStates = [f \in Fields |-> ClearedField]
  /\ currentStep = "loading"
  /\ btnDisabled \in BOOLEAN
  /\ spinner = FALSE
  /\ attempts = <<>>
  /\ started = 0
  /\ statusShown = FALSE
  /\ hideTimers = {}
  /\ resetTimers = {}
  /\ glows = 0
  /\ successGlows = 0
  /\ flipped = FALSE
  /\ rotY = FrontRest
  /\ tweens = <<>>
  /\ bounces = <<>>
  /\ overlay = UpdateFieldPositions(FrontRest)
  /\ lastFocus = "none"
  /\ sinceFocus = 0
  /\ resizedMidTween = FALSE
  /\ initialized = FALSE
  /\ errorCalls = 0
  /\ unhandled = FALSE
  /\ posY = 0
  /\ container = GetCardScreenSize(InitialViewport, InitialViewport, 0)
  /\ rendered = [rotY |-> rotY, posY |-> 0]
  /\ frameScheduled = FALSE
  /\ lastLayout = "none"
  /\ viewport = InitialViewport
  /\ cameraAspect = InitialViewport
  /\ canvasSize = InitialViewport
  /\ layoutThrows \in BOOLEAN
  /\ constructed = {}
  /\ containerPresent = TRUE
  /\ ControlsInit
  /\ checkouts = <<>>
  /\ tokenReqs = <<>>
  /\ initPc = "start"
  /\ failedAt = "none"
  /\ propagated = FALSE
  /\ appInitialized = FALSE
  /\ submitRegistered = FALSE
  /\ hostedReady = FALSE
  /\ layoutTimer = FALSE
  /\ resizeListening = FALSE
  /\ clientToken = "none"
  /\ tokenPc = "idle"

\* no event is handled while the constructor of the scene is running
BetweenSteps == initPc # "firstFrame"

NextBoot ==
  \/ \E found \in BOOLEAN : GetDOMElements(found)
  \/ \E rendererOk \in BOOLEAN : SceneSetup(rendererOk)
  \/ SceneFirstFrame
  \/ InitialLayoutFire
  \/ \E ok \in BOOLEAN : InitializeBraintree(ok)
  \/ \E outcome \in ListenerOutcomes : SetupEventListeners(outcome)
  \/ (hostedReady /\ ValidityEvent)
  \/ (submitRegistered /\ MayStart(MaxAttempts, MaxPayments)
        /\ HandleFormSubmit)
  \/ TokenizeDone
  \/ ChargeDone
  \/ ResetTimerFire
  \/ StatusHideFire
  \/ (BetweenSteps /\ SlowTick)
SpecBoot == InitBoot /\ [][NextBoot]_vars

\* what the hosted fields tell the scene: validity and card-type events,
\* before and after dispose()
CardTypeEvent == \E t \in CardTypes \cup {"none"} : HandleCardTypeChange(t)
NextCard ==
  \/ ValidityEvent
  \/ CardTypeEvent
  \/ Dispose
SpecCard == Init /\ [][NextCard]_vars

\* the server alone, with any request bodies
CheckoutRequest ==
  \E nonce \in BodyNonces, amount \in BodyAmounts : PostCheckout(nonce, amount)
SaleDone ==
  \E i \in 1..MaxRequests, result \in SaleResults : SaleReturns(i, result)
NextServer ==
  \/ CheckoutRequest
  \/ SaleDone
SpecServer == Init /\ [][NextServer]_vars

\* initialize() at the start of initializeBraintree: the scene is built and
\* running, nothing of the payment integration exists yet
InitToken ==
  /\ fieldStates = [f \in Fields |-> ClearedField]
  /\ currentStep = "loading"
  /\ btnDisabled \in BOOLEAN
  /\ spinner = FALSE
  /\ attempts = <<>>
  /\ started = 0
  /\ statusShown = FALSE
  /\ hideTimers = {}
  /\ resetTimers = {}
  /\ glows = 0
  /\ successGlows = 0
  /\ flipped = FALSE
  /\ rotY = FrontRest
  /\ tweens = <<>>
  /\ bounces = <<>>
  /\ overlay = UpdateFieldPositions(FrontRest)
  /\ lastFocus = "none"
  /\ sinceFocus = 0
  /\ resizedMidTween = FALSE
  /\ initialized = FALSE
  /\ errorCalls = 0
  /\ unhandled = FALSE
  /\ posY = 0
  /\ container = GetCardScreenSize(InitialViewport, InitialViewport, 0)
  /\ rendered = [rotY |-> rotY, posY |-> 0]
  /\ frameScheduled = TRUE
  /\ lastLayout = "written"
  /\ viewport = InitialViewport
  /\ cameraAspect = InitialViewport
  /\ canvasSize = InitialViewport
  /\ layoutThrows = FALSE
  /\ constructed = SceneParts
  /\ containerPresent = TRUE
  /\ ControlsInit
  /\ checkouts = <<>>
  /\ tokenReqs = <<>>
  /\ initPc = "braintree"
  /\ failedAt = "none"
  /\ propagated = FALSE
  /\ appInitialized = FALSE
  /\ submitRegistered = FALSE
  /\ hostedReady = FALSE
  /\ layoutTimer = TRUE
  /\ resizeListening = TRUE
  /\ clientToken = "none"
  /\ tokenPc = "idle"

\* the client-token endpoint with the application and other clients
TokenRequested == \E fromApp \in BOOLEAN : TokenRequest(fromApp)
GenerateDone ==
  \E i \in DOMAIN tokenReqs, result \in GenerateResults :
    GenerateReturns(i, result)
TokenReceived == \E i \in DOMAIN tokenReqs : ClientReceives(i)
NextToken ==
  \/ TokenRequested
  \/ GenerateDone
  \/ TokenReceived
  \/ FetchRejected
SpecToken == InitToken /\ [][NextToken]_vars

\* field events, one payment and the scene controls side by side: events
\* come for the fields of FlowFields, and a run uses one scene control
ControlsUntouched ==
  /\ currentTheme = "default"
  /\ toggles = 0
  /\ viewport = InitialViewport
FlowBlurEvent == \E f \in FlowFields : HandleFieldBlur(f)
FlowValidityEvent ==
  \E f \in FlowFields, v \in BOOLEAN : HandleValidityChange(f, v)
NextFields ==
  \/ (glows < MaxFlowFocus /\ FlowFocusEvent)
  \/ FlowBlurEvent
  \/ FlowValidityEvent
  \/ (started = 0 /\ InputSubmitRequest)
  \/ TokenizeDone
  \/ ChargeDone
  \/ ResetTimerFire
  \/ StatusHideFire
  \/ (ControlsUntouched /\ ToggleTheme)
  \/ (ControlsUntouched /\ ToggleParticles)
  \/ (ControlsUntouched /\ ResizeEvent)
  \/ SlowTick
SpecFields == Init /\ [][NextFields]_vars

\* ================================================================ claims

SubmitRequest == HandleFormSubmit \/ HandleKeyboard \/ InputSubmitRequest
AllCleared(fs) == \A f \in Fields : fs[f] = ClearedField

\* C1: with some valid flag false, a submit request through any entry point
\* (form submit, Ctrl+Enter, hosted-field input submit request) changes
\* nothing: no processing indicator, no tokenize call, the step unchanged.
C1_InvalidSubmitIsNoOp ==
  [][(~IsFormValid /\ SubmitRequest)
       => UNCHANGED <<spinner, btnDisabled, attempts, started, currentStep>>]_vars

\* Processing is active: a submitted payment attempt has not ended yet
Processing == attempts # <<>> /\ currentStep = "processing"

\* C2: while a payment is being processed a focus event changes no field
\* state, starts no tween, adds no glow and leaves the flipped marker alone.
C2_FocusIgnoredWhileProcessing ==
  [][(Processing /\ FocusEvent)
       => UNCHANGED <<fieldStates, tweens, glows, flipped>>]_vars

\* C3: a focus event for a field whose focused flag is already set leaves
\* field states, glow meshes, rotation tweens and the flipped marker as they
\* were after the first focus.
C3_RefocusIsNoOp ==
  [][\A f \in Fields :
        (fieldStates[f].focused /\ HandleFieldFocus(f))
          => UNCHANGED <<fieldStates, glows, tweens, flipped>>]_vars

\* C4: when the most recent focus event was focus("cvv"), the container is
\* marked flipped at once, and as soon as FlipDuration ms of frames have run
\* since that event the card is in back orientation and the layout shows
\* cvv (opacity 1, pointer events on) and hides number (opacity 0, off).
C4_CvvFocusFlipsToBack ==
  lastFocus = "cvv" =>
    /\ flipped
    /\ sinceFocus >= FlipDuration =>
         /\ rotY = BackRest
         /\ IsCardFlipped(rotY)
         /\ overlay.cvv.opacity = 1 /\ overlay.cvv.pointer
         /\ overlay.number.opacity = 0 /\ ~overlay.number.pointer

C4_Witness ==
  /\ lastFocus = "cvv"
  /\ sinceFocus = FlipDuration
  /\ fieldStates["number"].focused
  /\ overlay.cvv.opacity = 1
  /\ overlay.number.opacity = 0

\* a step that clears a focused flag or detaches a glow mesh: in the scene
\* alone only a blur event does either
BlurStep ==
  \/ glows' < glows
  \/ \E f \in Fields : fieldStates[f].focused /\ ~fieldStates'[f].focused

\* a step that attaches a glow mesh: only a focus event does
FocusStep == glows' > glows

\* C5: a blur event removes one glow mesh and starts no tween, changes no
\* tween target, no rotation and not the flipped marker; and as long as no
\* focus event arrives after focus("cvv"), a card that shows its back keeps
\* showing it, in the rotation and in the layout.
C5_BlurKeepsOrientation ==
  [][/\ BlurStep =>
          /\ tweens' = tweens /\ rotY' = rotY /\ flipped' = flipped
          /\ overlay' = overlay
          /\ glows' = IF glows > 0 THEN glows - 1 ELSE 0
     /\ (lastFocus = "cvv" /\ IsCardFlipped(rotY) /\ ~FocusStep)
          => (IsCardFlipped(rotY') /\ overlay'.cvv.opacity = 1 /\ flipped')
    ]_vars

C5_Witness ==
  /\ lastFocus = "cvv"
  /\ ~fieldStates["cvv"].focused
  /\ glows = 0
  /\ sinceFocus = FlipDuration
  /\ rotY = BackRest
  /\ flipped

\* C6: when the most recent focus event was for number, expirationDate or
\* postalCode, the container is not marked flipped, and as soon as
\* FlipDuration ms of frames have run since that event the card is in front
\* orientation: number and expiry shown and interactive, cvv hidden and not.
C6_OtherFocusFlipsToFront ==
  lastFocus \in Fields \ {"cvv"} =>
    /\ ~flipped
    /\ sinceFocus >= FlipDuration =>
         /\ rotY = FrontRest
         /\ ~IsCardFlipped(rotY)
         /\ overlay.number.opacity = 1 /\ overlay.number.pointer
         /\ overlay.expiry.opacity = 1 /\ overlay.expiry.pointer
         /\ overlay.cvv.opacity = 0 /\ ~overlay.cvv.pointer

\* the front was reached from the back: the cvv field still holds its flag
C6_Witness ==
  /\ lastFocus = "postalCode"
  /\ fieldStates["cvv"].focused
  /\ sinceFocus = FlipDuration
  /\ rotY = FrontRest
  /\ overlay.cvv.opacity = 0

\* declared face of each overlay region
Face == [number |-> "front", expiry |-> "front", cvv |-> "back",
         postal |-> "always", submit |-> "always"]

\* orientation as the data model defines it: front iff |y mod 2pi| < pi/2
StatedOrientation(y) ==
  IF 2 * (Abs(y) % (2 * PI)) < PI THEN "front" ELSE "back"

\* the same with the boundary on the front side: back iff |y| > pi/2
AmendedOrientation(y) ==
  IF 2 * (Abs(y) % (2 * PI)) <= PI THEN "front" ELSE "back"

LayoutMatches(ov, orientation) ==
  \A r \in Regions :
    /\ (ov[r].opacity = 1) <=> (Face[r] \in {"always", orientation})
    /\ ov[r].opacity \in {0, 1}
    /\ (ov[r].opacity = 0) => ~ov[r].pointer
    /\ (ov[r].opacity = 1) => ov[r].pointer

\* C7 as stated: every layout pass shows exactly the regions whose face
\* matches the orientation front iff |y mod 2pi| < pi/2, back otherwise,
\* and disables pointer events on the others.
C7_LayoutMatchesStatedOrientation ==
  [][Tick(FrameMs) => LayoutMatches(overlay', StatedOrientation(rotY'))]_vars

\* C7 amended: the same with rotation exactly pi/2 counted as front
\* (back iff |y| > pi/2).
C7_LayoutMatchesOrientation ==
  [][Tick(FrameMs) => LayoutMatches(overlay', AmendedOrientation(rotY'))]_vars

\* a frame has run (the float has moved the card) at rotation pi/2
C7_Witness ==
  /\ 2 * rotY = PI
  /\ posY # 0
  /\ overlay = UpdateFieldPositions(rotY)
  /\ overlay.number.opacity = 1
  /\ overlay.cvv.opacity = 0

\* C8: a payment success arms the reset timer with the fixed delay; the
\* pending timer leaves only by firing, and no time passes once it is due;
\* when it fires every field state is {valid: false, focused: false} and the
\* form is not eligible for submission.
C8_ResetClearsFieldStates ==
  [][/\ (\E i \in DOMAIN attempts : ChargeReturn(i, TRUE))
          => ResetDelay \in resetTimers'
     /\ (resetTimers # {} /\ ~ResetTimerFire)
          => /\ resetTimers' # {}
             /\ 0 \in resetTimers => 0 \in resetTimers'
     /\ ResetTimerFire
          => /\ AllCleared(fieldStates')
             /\ ~AllValid(fieldStates')
             /\ btnDisabled'
    ]_vars

C8_Witness ==
  /\ currentStep = "complete"
  /\ successGlows > 0
  /\ resetTimers = {}
  /\ lastFocus # "none"
  /\ AllCleared(fieldStates)
  /\ btnDisabled

\* C9: a payment success sets the step to 'complete', and the reset that
\* fires after the fixed delay brings it back to 'form'.
C9_StepReturnsToForm ==
  [][/\ (\E i \in DOMAIN attempts : ChargeReturn(i, TRUE))
          => currentStep' = "complete"
     /\ ResetTimerFire => currentStep' = "form"
    ]_vars

\* C10: after the post-success reset fires no field glow mesh and no success
\* glow mesh is attached to the card, the container is not marked flipped,
\* and all field states are cleared.
C10_ResetClearsVisualState ==
  [][ResetTimerFire
       => /\ glows' = 0
          /\ successGlows' = 0
          /\ ~flipped'
          /\ AllCleared(fieldStates')
    ]_vars

\* a payment attempt ends in failure: no nonce or a rejected tokenize call,
\* or a charge answered success:false or a rejected request
PaymentFailure ==
  \E i \in DOMAIN attempts :
     \/ \E r \in TokenizeResults \ Nonces : TokenizeReturn(i, r)
     \/ ChargeReturn(i, FALSE)

\* C11: every failed payment attempt ends with the step at 'form' and with
\* one more call of the error callback (the message handed to the
\* coordinator), and leaves every valid flag as it was.
C11_FailureReturnsToForm ==
  [][PaymentFailure
       => /\ currentStep' = "form"
          /\ errorCalls' = errorCalls + 1
          /\ \A f \in Fields : fieldStates'[f].valid = fieldStates[f].valid
    ]_vars

C11_Witness ==
  /\ started > 0
  /\ attempts = <<>>
  /\ errorCalls > 0
  /\ currentStep = "form"
  /\ statusShown
  /\ IsFormValid

\* C12: no payment error is left unhandled: whatever the entry point and
\* whether or not the integration is initialized, no processPayment promise
\* is ever rejected without a handler.
C12_NoUnhandledRejection == unhandled = FALSE

\* C13: a focus or validity event that arrives while the post-success reset
\* is pending leaves the reset timer as it is, and when the timer fires every
\* field, the one focused or validated in between included, is set back to
\* {valid: false, focused: false}.
C13_ResetNeverCancelled ==
  [][/\ (resetTimers # {} /\ (FocusEvent \/ ValidityEvent))
          => resetTimers' = resetTimers
     /\ ResetTimerFire
          => \A f \in Fields :
               (fieldStates[f].focused \/ fieldStates[f].valid)
                 => fieldStates'[f] = ClearedField
    ]_vars

\* the reset has fired in the same instant in which number was focused: the
\* focus event came at the end of the delay, after the success
C13_Witness ==
  /\ currentStep = "complete"
  /\ successGlows > 0
  /\ resetTimers = {}
  /\ lastFocus = "number"
  /\ sinceFocus = 0
  /\ glows > 0
  /\ fieldStates["number"] = ClearedField

\* C14: rotation tweens never stack: a flip requested while another flip
\* tween is in flight replaces it, so at most one rotation tween is alive
\* (and writes rotation.y) in any frame.
C14_RotationTweensReplace == Len(tweens) <= 1

\* the container geometry a layout pass computes for the window as it is now
FreshContainer == GetCardScreenSize(viewport, viewport, posY)

\* C15: the resize handler itself realigns the overlay: in no state, the ones
\* between a resize and the next frame included, is the container geometry
\* the one computed for another window size.
C15_ResizeRealignsAtOnce == container = FreshContainer

\* C16: a resize sets the camera aspect and the canvas size from the new
\* window size, and every layout pass, the first after a resize included,
\* computes the container from the window size current at that pass.
C16_LayoutUsesNewViewport ==
  [][/\ ResizeEvent => (cameraAspect' = viewport' /\ canvasSize' = viewport')
     /\ Tick(FrameMs) => container' = GetCardScreenSize(viewport', viewport', posY')
    ]_vars

\* a resize came while a tween was running, and a frame has run since
C16_Witness ==
  /\ resizedMidTween
  /\ viewport # InitialViewport
  /\ lastFocus = "cvv"
  /\ container = FreshContainer
  /\ container # GetCardScreenSize(InitialViewport, InitialViewport, posY)

\* C17: in every frame the layout pass runs after the tweens and the idle
\* float have moved the card and before the render call: the overlay and
\* the container written in a frame are computed from the rotation and the
\* height the frame ends with, which are the ones the frame renders.
C17_LayoutAfterTransform ==
  [][Tick(FrameMs)
       => /\ lastLayout' = "written"
          /\ overlay' = UpdateFieldPositions(rotY')
          /\ container' = GetCardScreenSize(cameraAspect', canvasSize', posY')
          /\ rendered' = [rotY |-> rotY', posY |-> posY']
    ]_vars

\* a frame in the middle of a flip: the tween is still in flight
C17_Witness ==
  /\ tweens # <<>>
  /\ tweens[1].elapsed > 0
  /\ rotY \notin {FrontRest, BackRest}
  /\ posY # 0
  /\ rendered = [rotY |-> rotY, posY |-> posY]
  /\ overlay = UpdateFieldPositions(rotY)

\* a layout pass can run: scene parts built and container element present
LayoutReady == constructed = SceneParts /\ containerPresent

\* C18: a layout pass requested while the card, the camera or the renderer
\* is not constructed, or while the container element is absent, ends
\* without an error and leaves overlay styles and container geometry as
\* they were.
C18_LayoutNoOpWhenUnavailable ==
  [][(LayoutRequest /\ ~LayoutReady)
       => /\ lastLayout' = "skipped"
          /\ UNCHANGED <<overlay, container>>
    ]_vars

C18_Witness ==
  /\ lastLayout = "skipped"
  /\ "camera" \notin constructed
  /\ containerPresent
  /\ overlay # UpdateFieldPositions(rotY)

\* C19: a frame whose layout pass raises still requests the next frame,
\* leaves the overlay as it was, and renders the card as the frame moved it.
C19_FailingFrameStillRenders ==
  [][Tick(FrameMs)
       => /\ frameScheduled'
          /\ rendered' = [rotY |-> rotY', posY |-> posY']
          /\ lastLayout' = "thrown" => UNCHANGED <<overlay, container>>
    ]_vars

\* a region's rectangle lies inside the container, in percent of it
Contained(rect) ==
  /\ rect.left >= 0
  /\ rect.top >= 0
  /\ rect.left + rect.width <= 100
  /\ rect.top + rect.height <= 100

\* C20 as stated: in every layout output every visible region (postal and
\* submit always) has its rectangle inside the container rectangle.
C20_VisibleRegionsContained ==
  [][Tick(FrameMs)
       => \A r \in Regions : overlay'[r].opacity = 1 => Contained(overlay'[r])
    ]_vars

\* C20 amended: every visible region that belongs to a card face (number,
\* expiry, cvv) has its rectangle inside the container rectangle; postal and
\* submit are placed below it (top at or beyond 100%), within its width.
C20_FaceRegionsContained ==
  [][Tick(FrameMs)
       => \A r \in Regions :
            overlay'[r].opacity = 1 =>
              IF Face[r] = "always"
                THEN /\ overlay'[r].top >= 100
                     /\ overlay'[r].left >= 0
                     /\ overlay'[r].left + overlay'[r].width <= 100
                ELSE Contained(overlay'[r])
    ]_vars

\* a frame has run and laid out the back of the card
C20_Witness ==
  /\ posY # 0
  /\ IsCardFlipped(rotY)
  /\ overlay.cvv.opacity = 1
  /\ Contained(overlay.cvv)
  /\ overlay.postal.top >= 100


\* C21: applyTheme is idempotent: an applyTheme call that repeats the name of
\* the applyTheme call before it leaves the fog colour and the card base
\* colour exactly as that first call left them.
C21_ApplyThemeIdempotent ==
  [][\A theme \in ThemeArgs :
       (lastApplied = theme /\ ApplyThemeCall(theme))
         => UNCHANGED <<fogColor, cardColor>>]_vars

\* a theme was applied twice in a row and its colours are in place
C21_Witness ==
  /\ appliedTwice
  /\ lastApplied = "cyberpunk"
  /\ fogColor = CyberpunkFog
  /\ cardColor = CyberpunkCard

\* C22: applyTheme with a name that is none of the themes is a no-op: the
\* fog colour and the card base colour stay exactly as they were, whatever
\* theme was active.
C22_UnknownThemeIsNoOp ==
  [][\A theme \in ThemeArgs :
       (ThemeIndexOf(theme) = -1 /\ ApplyThemeCall(theme))
         => UNCHANGED <<fogColor, cardColor>>]_vars

\* C23: after any sequence of toggleParticles calls the cloud's visibility
\* equals the particlesEnabled flag, the cloud is the object built at
\* initialization, and an even number of toggles leaves the flag where it
\* started (two consecutive toggles restore the previous state).
C23_ParticleToggleOnlyFlips ==
  /\ particlesVisible = particlesEnabled
  /\ particleCloud = InitialCloud
  /\ particlesEnabled = (toggles % 2 = 0)

\* the cloud was switched off and on again
C23_Witness ==
  /\ toggles = 2
  /\ particlesEnabled
  /\ particlesVisible


\* C24: an initialization failure is fatal: once a step of initialize() has
\* failed the error has been propagated to the caller, isInitialized is
\* false, the step is 'loading', no submit handler is registered, and no
\* frame loop started by a scene whose construction failed is running.
C24_InitFailureIsFatal ==
  initPc = "failed" =>
    /\ propagated
    /\ ~appInitialized
    /\ currentStep = "loading"
    /\ ~submitRegistered
    /\ (failedAt = "scene" => ~frameScheduled)


Charging(as) == {i \in DOMAIN as : as[i].at = "charge"}

\* C29: within an attempt the charge request is sent only when tokenization
\* has returned a non-empty nonce, and it carries exactly that nonce; when
\* tokenization is rejected or returns no nonce, no charge request is sent.
C29_ChargeCarriesTokenizedNonce ==
  [][/\ \A i \in DOMAIN attempts, r \in TokenizeResults :
          TokenizeReturn(i, r) =>
            IF r \in Nonces
              THEN attempts'[i] = [at |-> "charge", nonce |-> r]
              ELSE Cardinality(Charging(attempts'))
                     = Cardinality(Charging(attempts))
     /\ Cardinality(Charging(attempts')) > Cardinality(Charging(attempts))
          => \E i \in DOMAIN attempts, r \in Nonces : TokenizeReturn(i, r)
     /\ \A i \in Charging(attempts') : attempts'[i].nonce \in Nonces]_vars

\* a charge request carrying the second nonce is in flight
C29_Witness ==
  \E i \in DOMAIN attempts :
    attempts[i] = [at |-> "charge", nonce |-> "nonce_b"]


\* C30: the server validates every payment request: a /checkout request
\* whose body lacks the nonce or the amount is answered with status 400 and
\* success false and never reaches the gateway sale; no request gets more
\* than one response, a request whose handler has ended has exactly one,
\* and a response says success only when the gateway reported a
\* successful sale.
C30_ServerValidatesRequests ==
  \A i \in DOMAIN checkouts :
    LET c == checkouts[i]
    IN  /\ (Missing(c.nonce) \/ Missing(c.amount)) =>
              /\ c.sale = "notCalled"
              /\ c.responses = <<[status |-> StatusBadRequest,
                                  success |-> FALSE]>>
        /\ Len(c.responses) <= 1
        /\ c.sale # "pending" => Len(c.responses) = 1
        /\ \A k \in DOMAIN c.responses :
              c.responses[k].success => c.sale = "success"

\* one request without an amount was refused, another was charged
C30_Witness ==
  \E i, j \in DOMAIN checkouts :
    /\ checkouts[i].amount = "absent"
    /\ checkouts[i].nonce = "nonce_a"
    /\ Len(checkouts[i].responses) = 1
    /\ checkouts[j].sale = "success"
    /\ checkouts[j].responses = <<[status |-> StatusOk, success |-> TRUE]>>


\* a focus, blur or validity event for field f
FieldEventFor(f) ==
  \/ HandleFieldFocus(f)
  \/ HandleFieldBlur(f)
  \/ \E v \in BOOLEAN : HandleValidityChange(f, v)

\* C25: the field states are written only by focus, blur and validity
\* events and by the form reset: a step that changes any valid or focused
\* flag is the reset, or is an event for one field f and changes the entry
\* of f alone; frames, flips, glows, card data updates, the success
\* animation, theme and particle toggles and resizes change none.
C25_FieldStateWriters ==
  [][fieldStates' # fieldStates =>
       \/ ResetTimerFire
       \/ \E f \in Fields :
            /\ \A g \in Fields \ {f} : fieldStates'[g] = fieldStates[g]
            /\ FieldEventFor(f)]_vars

\* two fields are focused, one of them valid, after a success animation, a
\* frame and a scene control
C25_Witness ==
  /\ fieldStates["number"].focused
  /\ fieldStates["cvv"].focused
  /\ fieldStates["cvv"].valid
  /\ successGlows > 0
  /\ ~ControlsUntouched
  /\ tweens = <<>>

\* C27: with no rotation tween in flight rotation.y is one of the two rest
\* values, 0.1*pi or pi; a tween in flight is younger than 800 ms and heads
\* for a rest value; and once the frames since the last flip add up to
\* 800 ms no tween is left and rotation.y is the rest value of that flip.
C27_RotationRestsAtRestValues ==
  /\ tweens = <<>> => rotY \in {FrontRest, BackRest}
  /\ \A k \in DOMAIN tweens :
       /\ tweens[k].elapsed < FlipDuration
       /\ tweens[k].to \in {FrontRest, BackRest}
  /\ (lastFocus # "none" /\ sinceFocus = FlipDuration) =>
       /\ tweens = <<>>
       /\ rotY = IF lastFocus = "cvv" THEN BackRest ELSE FrontRest

\* the flip to the back has run its 800 ms and the card rests at pi
C27_Witness ==
  /\ lastFocus = "cvv"
  /\ sinceFocus = FlipDuration
  /\ tweens = <<>>
  /\ rotY = BackRest

\* C28: isFormValid() is true exactly when the valid flags of number,
\* expirationDate, cvv and postalCode are all true, and after a validity
\* event or a form reset handled while no payment is in flight the submit
\* button is enabled exactly when isFormValid() is true.
C28_ButtonFollowsValidity ==
  [][/\ IsFormValid' = (/\ fieldStates'["number"].valid
                        /\ fieldStates'["expirationDate"].valid
                        /\ fieldStates'["cvv"].valid
                        /\ fieldStates'["postalCode"].valid)
     /\ (attempts = <<>> /\ (ValidityEvent \/ ResetTimerFire))
          => btnDisabled' = ~IsFormValid']_vars

\* all four fields are valid and the button is enabled, nothing in flight
C28_Witness ==
  /\ IsFormValid
  /\ ~btnDisabled
  /\ attempts = <<>>
  /\ started = 0


\* C33: at most one payment attempt is in flight at any time: while a
\* processPayment call has started and not reached its outcome, no second
\* tokenize or charge request is issued, whichever entry point fires.
C33_SingleAttemptInFlight == Len(attempts) <= 1

\* C34: the submit button is disabled in every state in which a payment
\* attempt is in flight, validity events during the attempt and the end of
\* another attempt included; it is enabled again only by a step after which
\* no attempt is in flight and all fields are valid.
C34_ButtonDisabledInFlight ==
  [][/\ attempts' # <<>> => btnDisabled'
     /\ (btnDisabled /\ ~btnDisabled')
          => (attempts' = <<>> /\ AllValid(fieldStates'))]_vars

\* C35: whenever a payment attempt is in flight the step is 'processing',
\* and the step becomes 'complete' only from 'processing', for every
\* submit entry point.
C35_StepProcessingInFlight ==
  [][/\ attempts' # <<>> => currentStep' = "processing"
     /\ (currentStep # "complete" /\ currentStep' = "complete")
          => currentStep = "processing"]_vars

\* C36: every payment attempt that passed the initialization guard ends
\* with exactly one outcome notification, the success callback (which adds
\* one success glow to the card) or the error callback, and with the
\* processing indicator cleared; a step that ends no attempt and rejects no
\* call notifies nobody.
C36_ExactlyOneOutcome ==
  [][/\ Len(attempts') < Len(attempts)
          => /\ Len(attempts') = Len(attempts) - 1
             /\ (successGlows' - successGlows) + (errorCalls' - errorCalls) = 1
             /\ successGlows' >= successGlows
             /\ errorCalls' >= errorCalls
             /\ ~spinner'
     /\ (Len(attempts') >= Len(attempts) /\ started' = started)
          => UNCHANGED <<successGlows, errorCalls>>]_vars

\* two attempts overlapped; one was reported as a success, the other as an
\* error, and the indicator is cleared
C36_Witness ==
  /\ started = 2
  /\ attempts = <<>>
  /\ successGlows = 1
  /\ errorCalls = 1
  /\ initialized
  /\ ~spinner

\* C37: after any sequence of focus, blur, success and reset events at most
\* one field glow mesh is attached to the card, and whenever no field has
\* its focused flag set no field glow mesh is attached.
C37_OneGlowAtMost ==
  /\ glows <= 1
  /\ (\A f \in Fields : ~fieldStates[f].focused) => glows = 0

\* C38: the flipped marker of the container agrees with the most recently
\* requested rotation target (set iff the last focus was on cvv), and in
\* every state with no rotation tween in flight it agrees with the
\* orientation of the layout pass: the marker is set exactly when the card
\* shows its back and the cvv region is the visible, interactive one.
C38_MarkerAgreesWithOrientation ==
  /\ flipped = (lastFocus = "cvv")
  /\ tweens = <<>> =>
       /\ flipped = IsCardFlipped(rotY)
       /\ flipped = (overlay.cvv.opacity = 1 /\ overlay.cvv.pointer)
       /\ flipped = ~(overlay.number.opacity = 1 /\ overlay.number.pointer)

\* the card went to its back and returned: the marker is cleared again, the
\* cvv field still holding its focused flag, and the front is laid out
C38_Witness ==
  /\ lastFocus = "number"
  /\ fieldStates["cvv"].focused
  /\ ~flipped
  /\ tweens = <<>>
  /\ ~IsCardFlipped(rotY)
  /\ overlay.number.pointer

\* C40: after the scene's dispose() the scene is quiescent: no frame
\* advances a tween, moves the card, updates the overlay or renders (the one
\* frame already scheduled returns at once and requests no other), and a
\* window resize no longer runs the scene's resize handler, which would set
\* the camera aspect and the canvas size.
C40_DisposedSceneIsQuiet ==
  [][~isAnimating =>
       /\ UNCHANGED <<rotY, tweens, posY, overlay, container, rendered>>
       /\ frameScheduled' => frameScheduled
       /\ Tick(FrameMs) => ~frameScheduled'
       /\ UNCHANGED <<cameraAspect, canvasSize>>]_vars

\* C32: after a payment success the card bounces: in every frame in which a
\* celebration tween is alive the rendered position.y is the value that
\* tween wrote (rising to 1, then returning to 0), not the idle float.
C32_CardFollowsCelebration ==
  [][(bounces # <<>> /\ Tick(FrameMs))
       => rendered'.posY = PositionWrites(bounces, posY, FrameMs)]_vars

\* C39: every payment status message stays visible for its full 5 seconds:
\* the status element is hidden only when no hide timer is still running,
\* the timer of the message shown last being the longest of them.
C39_StatusShownFiveSeconds ==
  [][(statusShown /\ ~statusShown') => \A t \in hideTimers : t = 0]_vars

\* C31: every GET /client-token request gets exactly one response, which
\* is either success:true with a client token or status 500 with
\* success:false and an error message; a success:true response never lacks
\* the clientToken; and the client stores a token and goes on to create the
\* hosted fields only after a success:true response to its request.
C31_ClientTokenContract ==
  /\ \A i \in DOMAIN tokenReqs :
       LET q == tokenReqs[i]
       IN  /\ Len(q.responses) <= 1
           /\ q.generate # "pending" => Len(q.responses) = 1
           /\ \A k \in DOMAIN q.responses :
                LET r == q.responses[k]
                IN  \/ TestClientToken(r) /\ r.clientToken \in ClientTokens
                    \/ r.status = StatusServerError /\ ~r.success /\ r.error
  /\ (clientToken # "none" \/ tokenPc = "createClient") =>
       /\ clientToken \in ClientTokens
       /\ \E i \in DOMAIN tokenReqs :
            /\ tokenReqs[i].fromApp
            /\ tokenReqs[i].responses # <<>>
            /\ tokenReqs[i].responses[1].success

====
